---------------------------- MODULE Spec2Model ----------------------------
(***************************************************************************)
(* A model of python-odml2: the Value string grammar (odml2/model.py),     *)
(* the Section facade (odml2/model.py), the section builder                *)
(* (odml2/builder.py) and the YAML document (odml2/api/yml.py) on top of   *)
(* the back-end store contract.                                            *)
(*                                                                         *)
(* Text is modelled as a sequence of one-character strings.  The three     *)
(* non-ASCII characters of the source are the one-character strings        *)
(* PLUS_MINUS_UNICODE, Mu, Omega and Micro below.                          *)
(***************************************************************************)
EXTENDS Integers, Sequences, FiniteSets, TLC

VARIABLES store, last, arg, out

vars == <<store, last, arg, out>>

None == "<None>"

(***************************************************************************)
(* Characters                                                              *)
(***************************************************************************)
\* U+00B1, the plus-minus sign (PLUS_MINUS_UNICODE)
PLUS_MINUS_UNICODE == "<+->"
\* PLUS_MINUS under Python 3 (six.PY3)
PLUS_MINUS == PLUS_MINUS_UNICODE
\* U+03BC, greek small mu, and U+03A9, greek capital omega: both in the unit class
Mu == "<mu>"
Omega == "<Omega>"
\* U+00B5, the micro sign: not in the unit class
Micro == "<micro>"

DigitChars == <<"0", "1", "2", "3", "4", "5", "6", "7", "8", "9">>
Digits == {DigitChars[i] : i \in 1..10}
DigitVal(c) == CHOOSE d \in 0..9 : DigitChars[d + 1] = c

AsciiLetters ==
    {"a", "b", "c", "d", "e", "f", "g", "h", "i", "j", "k", "l", "m",
     "n", "o", "p", "q", "r", "s", "t", "u", "v", "w", "x", "y", "z",
     "A", "B", "C", "D", "E", "F", "G", "H", "I", "J", "K", "L", "M",
     "N", "O", "P", "Q", "R", "S", "T", "U", "V", "W", "X", "Y", "Z"}
\* [A-Za-z<Omega><mu>]
UnitChars == AsciiLetters \cup {Omega, Mu}
\* \s of a unicode pattern: the characters str.isspace() holds for.  Those
\* a TLA+ string cannot hold are written by name or by code point.
Whitespace ==
    {" ", "\t", "\n", "\r", "\f",
     "<VT>", "<U+000B>", "<FS>", "<U+001C>", "<GS>", "<U+001D>", "<RS>", "<U+001E>",
     "<US>", "<U+001F>", "<NEL>", "<U+0085>", "<NBSP>", "<U+00A0>", "<U+1680>",
     "<U+2000>", "<U+2001>", "<U+2002>", "<U+2003>", "<U+2004>", "<U+2005>",
     "<U+2006>", "<U+2007>", "<U+2008>", "<U+2009>", "<U+200A>", "<U+2028>",
     "<U+2029>", "<U+202F>", "<U+205F>", "<U+3000>"}

AllIn(s, S) == \A i \in 1..Len(s) : s[i] \in S

(***************************************************************************)
(* Numbers.  An int is an Int.  A float is kept as the shortest decimal    *)
(* that denotes it (the digits of Python's repr), [neg, m, e] for          *)
(* (-1)^neg * m * 10^e with m not divisible by 10 (m = 0 has e = 0).       *)
(* Beyond the largest binary64 number the float is inf, written as 1e309.  *)
(***************************************************************************)
RECURSIVE DigitsToNat(_)
DigitsToNat(s) ==
    IF s = <<>> THEN 0
    ELSE DigitsToNat(SubSeq(s, 1, Len(s) - 1)) * 10 + DigitVal(s[Len(s)])

RECURSIVE NatToDigits(_)
NatToDigits(n) ==
    IF n < 10 THEN <<DigitChars[n + 1]>>
    ELSE NatToDigits(n \div 10) \o <<DigitChars[(n % 10) + 1]>>

RECURSIVE Normalize(_, _, _)
Normalize(neg, m, e) ==
    IF m = 0 THEN [neg |-> neg, m |-> 0, e |-> 0]
    ELSE IF m % 10 = 0 THEN Normalize(neg, m \div 10, e + 1)
    ELSE [neg |-> neg, m |-> m, e |-> e]

Zeros(n) == [i \in 1..n |-> "0"]

IsSign(c) == c \in {"+", "-"}

\* [0-9]+
IsInt(s) == Len(s) >= 1 /\ AllIn(s, Digits)
\* [eE][-+]?[0-9]+
IsExp(s) ==
    /\ Len(s) >= 2
    /\ s[1] \in {"e", "E"}
    /\ IF IsSign(s[2]) THEN IsInt(SubSeq(s, 3, Len(s))) ELSE IsInt(Tail(s))
\* [0-9]*\.[0-9]+([eE][-+]?[0-9]+)?
IsFlt(s) ==
    \E d \in 1..Len(s) :
        /\ s[d] = "."
        /\ AllIn(SubSeq(s, 1, d - 1), Digits)
        /\ \E f \in (d + 1)..Len(s) :
              /\ IsInt(SubSeq(s, d + 1, f))
              /\ f = Len(s) \/ IsExp(SubSeq(s, f + 1, Len(s)))
\* ([0-9]+)|([0-9]*\.[0-9]+([eE][-+]?[0-9]+)?)
IsUNum(s) == IsInt(s) \/ IsFlt(s)
\* [-+]?(...)
IsNum(s) == IsUNum(s) \/ (Len(s) >= 2 /\ IsSign(s[1]) /\ IsUNum(Tail(s)))
\* (\+-|\xb1)
IsPM(s) == s = <<"+", "-">> \/ s = <<PLUS_MINUS_UNICODE>>
\* [A-Za-z<Omega><mu>]{1,4}
IsUnit(s) == Len(s) \in 1..4 /\ AllIn(s, UnitChars)

\* Python's int(num) of a string matching [-+]?[0-9]+
ParseInt(s) ==
    IF IsSign(s[1])
    THEN (IF s[1] = "-" THEN -1 ELSE 1) * DigitsToNat(Tail(s))
    ELSE DigitsToNat(s)

\* inf: every decimal beyond the largest binary64 number
Inf(neg) == [neg |-> neg, m |-> 1, e |-> 309]
IsInf(f) == f.m # 0 /\ f.e + Len(NatToDigits(f.m)) - 1 > 308

(***************************************************************************)
(* Natural numbers of any length, as the sequence of their limbs of base   *)
(* 10^9, the lowest first (zero is any sequence of zeros).                 *)
(***************************************************************************)
RECURSIVE Pow10(_)
Pow10(n) == IF n = 0 THEN 1 ELSE 10 * Pow10(n - 1)

Base == Pow10(9)
Limb(A, i) == IF i >= 1 /\ i <= Len(A) THEN A[i] ELSE 0
\* the limbs f[1], ..., f[n] as a tuple
Limbs(f) == SubSeq(f, 1, Len(f))
LongLen(A, B) == IF Len(A) > Len(B) THEN Len(A) ELSE Len(B)

\* whether A + B carries out of the limbs lo..hi: their upper half carries,
\* or it is all Base - 1 and the lower half carries
RECURSIVE Carry(_, _, _, _)
Carry(A, B, lo, hi) ==
    IF lo > hi THEN FALSE
    ELSE IF lo = hi THEN Limb(A, lo) + Limb(B, lo) >= Base
    ELSE LET mid == (lo + hi) \div 2
         IN \/ Carry(A, B, mid + 1, hi)
            \/ /\ \A l \in (mid + 1)..hi : Limb(A, l) + Limb(B, l) = Base - 1
               /\ Carry(A, B, lo, mid)
BigAdd(A, B) ==
    Limbs([i \in 1..(LongLen(A, B) + 1) |->
        (Limb(A, i) + Limb(B, i) + (IF Carry(A, B, 1, i - 1) THEN 1 ELSE 0)) % Base])

\* whether A - B borrows from above the limbs lo..hi: their upper half
\* does, or it is equal in both and the lower half does
RECURSIVE Borrow(_, _, _, _)
Borrow(A, B, lo, hi) ==
    IF lo > hi THEN FALSE
    ELSE IF lo = hi THEN Limb(A, lo) < Limb(B, lo)
    ELSE LET mid == (lo + hi) \div 2
         IN \/ Borrow(A, B, mid + 1, hi)
            \/ /\ \A l \in (mid + 1)..hi : Limb(A, l) = Limb(B, l)
               /\ Borrow(A, B, lo, mid)
\* A - B, for A >= B
BigSub(A, B) ==
    Limbs([i \in 1..Len(A) |->
        (Limb(A, i) - Limb(B, i) - (IF Borrow(A, B, 1, i - 1) THEN 1 ELSE 0) + Base) % Base])

BigLess(A, B) ==
    \E i \in 1..LongLen(A, B) :
        /\ Limb(A, i) < Limb(B, i)
        /\ \A j \in (i + 1)..LongLen(A, B) : Limb(A, j) = Limb(B, j)
BigEq(A, B) == \A i \in 1..LongLen(A, B) : Limb(A, i) = Limb(B, i)

\* A / 2, rounded down
BigHalf(A) == Limbs([i \in 1..Len(A) |-> ((Limb(A, i + 1) % 2) * Base + A[i]) \div 2])
\* A * 2: the limb below carries when it is Base / 2 at least
BigDouble(A) ==
    Limbs([i \in 1..(Len(A) + (IF 2 * Limb(A, Len(A)) >= Base THEN 1 ELSE 0)) |->
        (2 * Limb(A, i) + (IF 2 * Limb(A, i - 1) >= Base THEN 1 ELSE 0)) % Base])
\* A * 2^n: 2^n is 2^(n \div 2) * 2^(n - n \div 2)
RECURSIVE Times2(_, _)
Times2(A, n) ==
    IF n = 0 THEN A
    ELSE IF n = 1 THEN BigDouble(A)
    ELSE LET H == Times2(A, n \div 2)
         IN IF Len(H) = 0 THEN H ELSE Times2(H, n - n \div 2)

\* the number written with the decimal digits ds
FromDigits(ds) ==
    Limbs([i \in 1..((Len(ds) + 8) \div 9) |->
        DigitsToNat(SubSeq(ds, IF Len(ds) - 9 * i + 1 < 1 THEN 1 ELSE Len(ds) - 9 * i + 1,
                           Len(ds) - 9 * (i - 1)))])

\* the decimal digits of A, with no leading zero
ToDigits(A) ==
    LET nz  == {i \in 1..Len(A) : A[i] # 0}
        top == CHOOSE i \in nz : \A j \in nz : j <= i
    IN IF nz = {} THEN <<"0">>
       ELSE NatToDigits(A[top])
            \o [p \in 1..(9 * (top - 1)) |->
                   DigitChars[((A[top - 1 - (p - 1) \div 9] \div Pow10(8 - ((p - 1) % 9))) % 10) + 1]]

\* 5^1074: 2^-1074, the smallest binary64 number, is 5^1074 * 10^-1074
P5_1074 ==
    <<447265625, 718265533, 682506419, 229087538, 767544565, 90279242,
      205702637, 809941164, 598993664, 837389733, 167250955, 37862738,
      891101451, 199131504, 125660551, 677717585, 647017972, 469699533,
      778203734, 874656084, 375927247, 524730776, 247904982, 277318329,
      753078342, 506169809, 60106011, 893458368, 936092382, 720832431,
      844753335, 703332226, 107107491, 193790268, 264934720, 501348035,
      552386115, 267801593, 478690147, 245247571, 804165633, 319894090,
      99995419, 274801297, 565444011, 553293054, 715914924, 249319452,
      395603106, 867681870, 266585566, 655911710, 741262385, 153853980,
      151400317, 972731696, 873124733, 535649843, 63874091, 307230500,
      360569987, 36887186, 678489821, 278458171, 903114045, 263007131,
      107818781, 987747960, 559397963, 266567103, 457177309, 965646954,
      359923797, 998363616, 87518652, 755072702, 856825006, 247644255,
      598026143, 213723650, 687928682, 465441765, 656458412, 4940>>

(***************************************************************************)
(* float(): the binary64 number nearest to a decimal (ties to the even     *)
(* one), and repr(): the shortest decimal that float() takes back to it,   *)
(* the nearest to it of those.  With S = max(1074, -e) every number here   *)
(* is a whole multiple of 10^-S and is kept as that multiple.              *)
(***************************************************************************)
\* the unit U = 2^q (q >= -1074) of the binary64 numbers around N: the
\* least with N < 2^53 * U, or 2^971, the unit of the largest ones
RECURSIVE FindUlp(_, _, _)
FindUlp(N, U, q) ==
    IF q = 971 \/ BigLess(N, Times2(U, 53)) THEN [U |-> U, q |-> q]
    ELSE FindUlp(N, BigDouble(U), q + 1)

\* one step of the binary long division of s.r by s.t
DivStep(s) ==
    IF BigLess(s.r, s.t) THEN [r |-> s.r, t |-> BigHalf(s.t), odd |-> FALSE]
    ELSE [r |-> BigSub(s.r, s.t), t |-> BigHalf(s.t), odd |-> TRUE]
\* n steps of it: the first n \div 2, then the others
RECURSIVE DivSteps(_, _)
DivSteps(s, n) ==
    IF n = 0 THEN s
    ELSE IF n = 1 THEN DivStep(s)
    ELSE LET h == DivSteps(s, n \div 2)
         IN IF h.odd \in BOOLEAN THEN DivSteps(h, n - n \div 2) ELSE h
\* the remainder of R by T * 2^-i, for R < 2 * T, and whether the quotient
\* is odd
DivMod(R, T, i) ==
    IF BigLess(R, T) THEN DivSteps([r |-> R, t |-> BigHalf(T), odd |-> FALSE], i)
    ELSE DivSteps([r |-> BigSub(R, T), t |-> BigHalf(T), odd |-> TRUE], i)

\* |C - V|
Dist(C, V) == IF BigLess(C, V) THEN BigSub(V, C) ELSE BigSub(C, V)

\* whether float() takes the decimal C to V, the multiple of the unit U:
\* C is within U/2 of V (U/4 below V when V is a power of two, where the
\* numbers below are twice as dense), the bound included when V is an even
\* multiple
Inside(C, V, U, pow2, even) ==
    LET d == Times2(Dist(C, V), IF BigLess(C, V) /\ pow2 THEN 2 ELSE 1)
    IN BigLess(d, U) \/ (even /\ ~BigLess(U, d))

\* the decimal of the fewest digits, n at least, that float() takes to V:
\* of the two decimals of n digits around V, whose digits are Vd, the one
\* inside, the nearer of two (the even one of two as near), or else a
\* decimal of more digits
RECURSIVE Shortest(_, _, _, _, _, _)
ShortestOf(V, U, pow2, even, Vd, n, lo, hi) ==
    LET inLo == Inside(lo, V, U, pow2, even)
        inHi == Inside(hi, V, U, pow2, even)
        dLo  == Dist(lo, V)
        dHi  == Dist(hi, V)
    IN IF inLo /\ inHi
       THEN IF BigLess(dLo, dHi) \/ (BigEq(dLo, dHi) /\ DigitVal(Vd[n]) % 2 = 0)
            THEN lo ELSE hi
       ELSE IF inLo THEN lo
       ELSE IF inHi THEN hi
       ELSE Shortest(V, U, pow2, even, Vd, n + 1)
Shortest(V, U, pow2, even, Vd, n) ==
    ShortestOf(V, U, pow2, even, Vd, n,
               FromDigits(SubSeq(Vd, 1, n) \o Zeros(Len(Vd) - n)),
               BigAdd(FromDigits(SubSeq(Vd, 1, n) \o Zeros(Len(Vd) - n)),
                      FromDigits(<<"1">> \o Zeros(Len(Vd) - n))))

\* the decimal digits Cd scaled by 10^-S, without their trailing zeros
Trimmed(neg, S, Cd) ==
    LET end == CHOOSE i \in 1..Len(Cd) :
                   Cd[i] # "0" /\ \A j \in (i + 1)..Len(Cd) : Cd[j] = "0"
    IN [neg |-> neg, m |-> DigitsToNat(SubSeq(Cd, 1, end)), e |-> Len(Cd) - end - S]

\* repr() of V * 10^-S, the multiple V of the unit U = 2^q; a unit above
\* 2^971 has no binary64 number
Repr(neg, S, V, U, q, even) ==
    IF q > 971 THEN Inf(neg)
    ELSE IF BigEq(V, <<>>) THEN [neg |-> neg, m |-> 0, e |-> 0]
    ELSE Trimmed(neg, S,
                 ToDigits(Shortest(V, U, q > -1074 /\ BigEq(V, Times2(U, 52)), even,
                                   ToDigits(V), 1)))

\* V that rounding has taken up to 2^53 units is 2^52 units of the next
\* binade
Carried(neg, S, V, U, q, even) ==
    IF BigLess(V, Times2(U, 53)) THEN Repr(neg, S, V, U, q, even)
    ELSE Repr(neg, S, V, BigDouble(U), q + 1, TRUE)

\* N rounded to a multiple of U, half to even, given dm, the remainder of
\* N by U and the parity of the quotient
RoundHalfEven(neg, S, N, U, q, dm) ==
    IF \/ BigLess(U, BigDouble(dm.r))
       \/ BigEq(BigDouble(dm.r), U) /\ dm.odd
    THEN Carried(neg, S, BigAdd(BigSub(N, dm.r), U), U, q, dm.odd)
    ELSE Carried(neg, S, BigSub(N, dm.r), U, q, ~dm.odd)

\* the binary64 number nearest to N * 10^-S, as its shortest decimal;
\* 5^1074 * 10^(S - 1074) is 2^-1074 on that scale
Nearest64(neg, S, N) ==
    LET u == FindUlp(N, IF S = 1074 THEN P5_1074
                        ELSE FromDigits(ToDigits(P5_1074) \o Zeros(S - 1074)), -1074)
    IN IF u.q = 971 /\ ~BigLess(N, Times2(u.U, 53)) THEN Inf(neg)
       ELSE RoundHalfEven(neg, S, N, u.U, u.q, DivMod(N, Times2(u.U, 52), 52))

\* the digits of 1.79769313486231e308, the largest decimal of 15 digits
\* below the largest binary64 number, 1.7976931348623157e308
MaxDigits15 == <<"1", "7", "9", "7", "6", "9", "3", "1", "3", "4", "8", "6", "2", "3", "1">>

\* the binary64 number nearest to the decimal f, as its shortest decimal.
\* A decimal of at most 15 digits from 1e-307 up to 1.79769313486231e308 is
\* its own shortest decimal (binary64 carries 15 decimal digits in its
\* normal range), and one of at most 15 digits above that is beyond the
\* largest binary64 number
Round64(f) ==
    LET ds == NatToDigits(f.m)
        x  == f.e + Len(ds) - 1
        S  == IF -f.e > 1074 THEN -f.e ELSE 1074
    IN IF f.m = 0 THEN f
       ELSE IF x > 308 THEN Inf(f.neg)
       ELSE IF x < -324 THEN [neg |-> f.neg, m |-> 0, e |-> 0]
       ELSE IF Len(ds) <= 15 /\ x >= -307 /\ x < 308 THEN f
       ELSE IF Len(ds) <= 15 /\ x = 308
       THEN IF \E i \in 1..Len(ds) :
                  /\ DigitVal(ds[i]) > DigitVal(MaxDigits15[i])
                  /\ \A j \in 1..(i - 1) : ds[j] = MaxDigits15[j]
            THEN Inf(f.neg) ELSE f
       ELSE Nearest64(f.neg, S, FromDigits(ds \o Zeros(f.e + S)))

\* Python's float(num) of a string matching [-+]?(INT|FLT)
ParseFloat(s) ==
    LET neg  == s[1] = "-"
        body == IF IsSign(s[1]) THEN Tail(s) ELSE s
        n    == Len(body)
        dots == {i \in 1..n : body[i] = "."}
        d    == IF dots = {} THEN n + 1 ELSE CHOOSE i \in dots : TRUE
        es   == {i \in 1..n : body[i] \in {"e", "E"}}
        x    == IF es = {} THEN n + 1 ELSE CHOOSE i \in es : TRUE
        ip   == SubSeq(body, 1, (IF d < x THEN d ELSE x) - 1)
        fp   == SubSeq(body, d + 1, x - 1)
        ex   == IF x > n THEN 0 ELSE ParseInt(SubSeq(body, x + 1, n))
    IN Round64(Normalize(neg, DigitsToNat(ip \o fp), ex - Len(fp)))

IntToFloat(i) == Normalize(i < 0, IF i < 0 THEN -i ELSE i, 0)

\* Python's str(int)
IntStr(i) == IF i < 0 THEN <<"-">> \o NatToDigits(-i) ELSE NatToDigits(i)

\* Python's str(float) (float_repr_style 'short'): fixed notation while the
\* decimal point lies within -4 < decpt <= 16, exponent notation otherwise
FloatStr(f) ==
    LET ds    == NatToDigits(f.m)
        n     == Len(ds)
        decpt == n + f.e
        sign  == IF f.neg THEN <<"-">> ELSE <<>>
        ex    == decpt - 1
        exds  == NatToDigits(IF ex < 0 THEN -ex ELSE ex)
        body  ==
            IF f.m = 0 THEN <<"0", ".", "0">>
            ELSE IF IsInf(f) THEN <<"i", "n", "f">>
            ELSE IF decpt > -4 /\ decpt <= 16
            THEN IF decpt <= 0 THEN <<"0", ".">> \o Zeros(-decpt) \o ds
                 ELSE IF decpt >= n THEN ds \o Zeros(decpt - n) \o <<".", "0">>
                 ELSE SubSeq(ds, 1, decpt) \o <<".">> \o SubSeq(ds, decpt + 1, n)
            ELSE <<ds[1]>>
                 \o (IF n > 1 THEN <<".">> \o SubSeq(ds, 2, n) ELSE <<>>)
                 \o <<"e", IF ex < 0 THEN "-" ELSE "+">>
                 \o (IF Len(exds) < 2 THEN <<"0">> ELSE <<>>) \o exds
    IN sign \o body

(***************************************************************************)
(* Value                                                                   *)
(***************************************************************************)
\* An optional field is <<>> (Python's None) or <<x>>
NoneOpt == <<>>
Some(x) == <<x>>

ZeroF == [neg |-> FALSE, m |-> 0, e |-> 0]

\* The payloads of ALLOWED_VALUE_TYPES that the model holds: int, float, bool, str
PInt(i) == [t |-> "int", i |-> i, f |-> ZeroF, s |-> <<>>]
PFloat(f) == [t |-> "float", i |-> 0, f |-> f, s |-> <<>>]
PBool(b) == [t |-> "bool", i |-> IF b THEN 1 ELSE 0, f |-> ZeroF, s |-> <<>>]
PStr(s) == [t |-> "str", i |-> 0, f |-> ZeroF, s |-> s]

\* isinstance(value, numbers.Number): bool is a subclass of int
IsNumber(p) == p.t \in {"int", "float", "bool"}

MkValue(p, unit, uncertainty) == [value |-> p, unit |-> unit, uncertainty |-> uncertainty]
NoValue == MkValue(PStr(<<>>), NoneOpt, NoneOpt)

\* Value.__init__: unit and uncertainty need a numeric payload
Value(p, unit, uncertainty) ==
    IF (unit # NoneOpt \/ uncertainty # NoneOpt) /\ ~IsNumber(p)
    THEN [err |-> "ConversionError", v |-> NoValue]
    ELSE [err |-> "none", v |-> MkValue(p, unit, uncertainty)]

\* Python's == on two payloads: numbers compare by their numeric value
PayloadNum(p) == IF p.t = "float" THEN p.f ELSE IntToFloat(p.i)
FloatEq(a, b) == a.m = b.m /\ a.e = b.e /\ (a.m = 0 \/ a.neg = b.neg)
PayloadEq(p, q) ==
    IF IsNumber(p) /\ IsNumber(q) THEN FloatEq(PayloadNum(p), PayloadNum(q))
    ELSE p.t = "str" /\ q.t = "str" /\ p.s = q.s

OptFloatEq(a, b) ==
    IF a = NoneOpt \/ b = NoneOpt THEN a = NoneOpt /\ b = NoneOpt
    ELSE FloatEq(a[1], b[1])

\* Value.__eq__
ValueEq(v, w) ==
    /\ PayloadEq(v.value, w.value)
    /\ v.unit = w.unit
    /\ OptFloatEq(v.uncertainty, w.uncertainty)

\* Value.__value_str
value_str(v) ==
    CASE v.value.t = "str" -> v.value.s
      [] v.value.t = "int" -> IntStr(v.value.i)
      [] v.value.t = "bool" ->
            IF v.value.i = 1 THEN <<"T", "r", "u", "e">> ELSE <<"F", "a", "l", "s", "e">>
      [] v.value.t = "float" -> FloatStr(v.value.f)

\* Value.__str__: the payload, then the uncertainty, then the unit
ValueStr(v) ==
    value_str(v)
    \o (IF v.uncertainty # NoneOpt
        THEN <<PLUS_MINUS>> \o FloatStr(v.uncertainty[1]) ELSE <<>>)
    \o (IF v.unit # NoneOpt THEN v.unit[1] ELSE <<>>)

\* The matches of VALUE_EXPR on s as (num, is_float, uncertainty, unit) =
\* (g[0], g[3], g[7], g[11]):
\*   ^NUM \s? ((\+-|\xb1)UNUM)? \s? (UNIT)?$
\* where $ also matches before a final newline.
VALUE_EXPR(s) ==
    LET ends == {Len(s)} \cup
                (IF Len(s) >= 1 /\ s[Len(s)] = "\n" THEN {Len(s) - 1} ELSE {})
        Opt(x) == IF x = <<>> THEN NoneOpt ELSE Some(x)
        Unsigned(x) == IF IsSign(x[1]) THEN Tail(x) ELSE x
        cands ==
            {c \in ends \X (1..Len(s)) \X {0, 1} \X (1..Len(s)) \X (0..2) \X {0, 1} :
                LET n == c[1]  i == c[2]  w1 == c[3]  j == c[4]  pl == c[5]  w2 == c[6]
                    a == i + w1
                    b == j + w2
                IN /\ i <= n /\ a <= j /\ b <= n
                   /\ IsNum(SubSeq(s, 1, i))
                   /\ w1 = 1 => s[a] \in Whitespace
                   /\ IF pl = 0 THEN j = a
                      ELSE /\ a + pl < j
                           /\ IsPM(SubSeq(s, a + 1, a + pl))
                           /\ IsUNum(SubSeq(s, a + pl + 1, j))
                   /\ w2 = 1 => s[b] \in Whitespace
                   /\ b = n \/ IsUnit(SubSeq(s, b + 1, n))}
    IN {[num |-> SubSeq(s, 1, c[2]),
         is_float |-> IF IsFlt(Unsigned(SubSeq(s, 1, c[2])))
                      THEN Some(Unsigned(SubSeq(s, 1, c[2]))) ELSE NoneOpt,
         uncertainty |-> Opt(SubSeq(s, c[2] + c[3] + c[5] + 1, c[4])),
         unit |-> Opt(SubSeq(s, c[4] + c[6] + 1, c[1]))] : c \in cands}

\* The things handed to Value.from_obj and to Section.__setitem__
TObj(p) == [k |-> "obj", p |-> p]
TValue(v) == [k |-> "Value", v |-> v]
\* an object of no allowed type (a dict, None)
TBad == [k |-> "bad"]

\* Value.from_obj (exported as value_from)
from_obj(thing) ==
    IF thing.k = "obj" /\ thing.p.t = "str"
    THEN LET ms == VALUE_EXPR(thing.p.s) IN
         IF ms = {} THEN Value(thing.p, NoneOpt, NoneOpt)
         ELSE LET g == CHOOSE m \in ms : TRUE
                  num == IF g.is_float # NoneOpt
                         THEN PFloat(ParseFloat(g.num)) ELSE PInt(ParseInt(g.num))
                  uncertainty == IF g.uncertainty # NoneOpt
                                 THEN Some(ParseFloat(g.uncertainty[1])) ELSE NoneOpt
              IN Value(num, g.unit, uncertainty)
    ELSE IF thing.k = "obj" THEN Value(thing.p, NoneOpt, NoneOpt)
    ELSE IF thing.k = "Value" THEN [err |-> "none", v |-> thing.v]
    ELSE [err |-> "ConversionError", v |-> NoValue]

(***************************************************************************)
(* The back-end store (the contract of the memory back-end, odml2.api.mem, *)
(* that Section, SB and YamlDocument call).  A store is its root id and    *)
(* its section records; a section record holds its properties as one       *)
(* ordered map, each entry a Value or a list of child ids.                 *)
(***************************************************************************)
MaxId == 3
\* the properties a store of the model holds at most
MaxProps == 2
Ids == 1..MaxId
NoId == 0

Names == {"a", "b"}
\* a malformed property name
BadName == "!"
\* odml2.checks.assert_name / assert_prefixed_name
IsName(name) == name \in Names

EmptyStore == [root |-> NoId, sections |-> {}]

Ok(st) == [st |-> st, err |-> "none"]
Fail(st, e) == [st |-> st, err |-> e]

ValueProp(name, v) == [name |-> name, kind |-> "value", value |-> v, refs |-> <<>>]
SectionProp(name, refs) == [name |-> name, kind |-> "sections", value |-> NoValue, refs |-> refs]
NewSection(type, id, label, reference) ==
    [uuid |-> id, type |-> type, label |-> label, reference |-> reference, props |-> <<>>]

StoreIds(st) == {s.uuid : s \in st.sections}
section_exists(st, id) == \E s \in st.sections : s.uuid = id
Sec(st, id) == CHOOSE s \in st.sections : s.uuid = id
root_exists(st) == st.root # NoId
root_get(st) == st.root
section_get_type(st, id) == Sec(st, id).type
section_get_label(st, id) == Sec(st, id).label
section_get_reference(st, id) == Sec(st, id).reference

PropAt(sec, name) == {i \in 1..Len(sec.props) : sec.props[i].name = name}
HasProp(sec, name) == PropAt(sec, name) # {}
Prop(sec, name) == sec.props[CHOOSE i \in PropAt(sec, name) : TRUE]
Range(f) == {f[i] : i \in DOMAIN f}

section_get_properties(st, id) == [i \in 1..Len(Sec(st, id).props) |-> Sec(st, id).props[i].name]
property_has_value(st, id, name) ==
    /\ section_exists(st, id)
    /\ \E i \in PropAt(Sec(st, id), name) : Sec(st, id).props[i].kind = "value"
property_has_sections(st, id, name) ==
    /\ section_exists(st, id)
    /\ \E i \in PropAt(Sec(st, id), name) : Sec(st, id).props[i].kind = "sections"
property_get_value(st, id, name) == Prop(Sec(st, id), name).value
property_get_sections(st, id, name) == Prop(Sec(st, id), name).refs

\* the sections a section owns through its section-list properties
Children(st, id) ==
    UNION {UNION {Range(s.props[i].refs) : i \in 1..Len(s.props)} :
            s \in {x \in st.sections : x.uuid = id}}
RECURSIVE Reach(_, _, _)
Reach(st, ids, n) ==
    IF n = 0 THEN ids
    ELSE Reach(st, ids \cup UNION {Children(st, c) : c \in ids}, n - 1)
\* ids and every section owned, transitively, through their properties
Owned(st, ids) == Reach(st, ids, Cardinality(st.sections))
Subtree(st, id) == Owned(st, {id})

PutSec(st, sec, new) == [st EXCEPT !.sections = (@ \ {sec}) \cup {new}]
Destroy(st, ids) == [st EXCEPT !.sections = {s \in @ : s.uuid \notin ids}]
DropAt(seq, i) == SubSeq(seq, 1, i - 1) \o SubSeq(seq, i + 1, Len(seq))

\* the malformed type name is BadName too; anything else given is a name
Types == {"t1", "t2", "t3"}
IsTypeName(type) == type \in Types
\* a label or a reference that is no string
NotAString == "<object>"

\* section_set_type(id, type)
section_set_type(st, id, type) ==
    IF ~IsTypeName(type) THEN Fail(st, "InvalidIdentifier")
    ELSE IF ~section_exists(st, id) THEN Fail(st, "NotFound")
    ELSE Ok(PutSec(st, Sec(st, id), [Sec(st, id) EXCEPT !.type = type]))

\* section_set_label(id, label)
section_set_label(st, id, label) ==
    IF ~section_exists(st, id) THEN Fail(st, "NotFound")
    ELSE Ok(PutSec(st, Sec(st, id), [Sec(st, id) EXCEPT !.label = label]))

\* section_set_reference(id, reference)
section_set_reference(st, id, reference) ==
    IF ~section_exists(st, id) THEN Fail(st, "NotFound")
    ELSE Ok(PutSec(st, Sec(st, id), [Sec(st, id) EXCEPT !.reference = reference]))

\* root_create that keeps the type and the id only
root_create_bare(st, type, id, label, reference) ==
    IF root_exists(st) \/ section_exists(st, id) THEN Fail(st, "AlreadyExists")
    ELSE Ok([root |-> id, sections |-> st.sections \cup {NewSection(type, id, None, None)}])

\* root_create(type, id, label, reference)
root_create(st, type, id, label, reference) ==
    IF root_exists(st) \/ section_exists(st, id) THEN Fail(st, "AlreadyExists")
    ELSE Ok([root |-> id,
             sections |-> st.sections \cup {NewSection(type, id, label, reference)}])

\* property_add_section(parent_id, name, type, child_id, label, reference):
\* the child is appended to the named list, which is created if absent.  The
\* property map binds a name to one Value or to one list (data model), so a
\* list created under a name that holds a value takes the value's place; no
\* source states that case.  Every call under src/ leaves is_link at its
\* default (false), and the lists hold strong references only.
property_add_section(st, parent_id, name, type, child_id, label, reference) ==
    IF ~IsName(name) THEN Fail(st, "InvalidIdentifier")
    ELSE IF ~section_exists(st, parent_id) THEN Fail(st, "NotFound")
    ELSE IF section_exists(st, child_id) THEN Fail(st, "AlreadyExists")
    ELSE LET parent == Sec(st, parent_id)
             props ==
                IF HasProp(parent, name)
                THEN LET i == CHOOSE j \in PropAt(parent, name) : TRUE IN
                     [parent.props EXCEPT ![i] =
                        IF @.kind = "sections"
                        THEN SectionProp(name, Append(@.refs, child_id))
                        ELSE SectionProp(name, <<child_id>>)]
                ELSE Append(parent.props, SectionProp(name, <<child_id>>))
             st1 == PutSec(st, parent, [parent EXCEPT !.props = props])
         IN Ok([st1 EXCEPT !.sections = @ \cup {NewSection(type, child_id, label, reference)}])

\* property_set_value(id, name, value)
property_set_value(st, id, name, v) ==
    IF ~IsName(name) THEN Fail(st, "InvalidIdentifier")
    ELSE IF ~section_exists(st, id) THEN Fail(st, "NotFound")
    ELSE LET sec == Sec(st, id)
             old == IF HasProp(sec, name) THEN Range(Prop(sec, name).refs) ELSE {}
             props ==
                IF HasProp(sec, name)
                THEN [sec.props EXCEPT ![CHOOSE j \in PropAt(sec, name) : TRUE] = ValueProp(name, v)]
                ELSE Append(sec.props, ValueProp(name, v))
         IN Ok(Destroy(PutSec(st, sec, [sec EXCEPT !.props = props]), Owned(st, old)))

\* property_remove(id, name): the whole property, with the sections it owns
property_remove(st, id, name) ==
    IF ~section_exists(st, id) THEN Fail(st, "NotFound")
    ELSE IF ~HasProp(Sec(st, id), name) THEN Fail(st, "NotFound")
    ELSE LET sec == Sec(st, id)
             i == CHOOSE j \in PropAt(sec, name) : TRUE
         IN Ok(Destroy(PutSec(st, sec, [sec EXCEPT !.props = DropAt(@, i)]),
                       Owned(st, Range(sec.props[i].refs))))

\* property_remove_value(id, name)
property_remove_value(st, id, name) ==
    IF ~property_has_value(st, id, name) THEN Fail(st, "NotFound")
    ELSE property_remove(st, id, name)

\* the reference to id taken out of the list that holds it; a list left empty
\* is no property any more (data model: never an empty list, an empty list
\* is deletion)
Unlink(st, id) ==
    LET without(refs) == SelectSeq(refs, LAMBDA r : r # id)
        relink(sec) ==
            [sec EXCEPT !.props =
                SelectSeq([i \in 1..Len(sec.props) |->
                              IF sec.props[i].kind = "sections"
                              THEN SectionProp(sec.props[i].name, without(sec.props[i].refs))
                              ELSE sec.props[i]],
                          LAMBDA e : e.kind = "value" \/ e.refs # <<>>)]
    IN [st EXCEPT !.sections = {relink(s) : s \in @}]

\* section_remove(id) that leaves the sections id owns
section_remove_record_only(st, id) ==
    IF ~section_exists(st, id) THEN Fail(st, "NotFound")
    ELSE LET st1 == Unlink(Destroy(st, {id}), id)
         IN Ok([st1 EXCEPT !.root = IF id = st.root THEN NoId ELSE @])

\* section_remove(id)
section_remove(st, id) ==
    IF ~section_exists(st, id) THEN Fail(st, "NotFound")
    ELSE LET st1 == Unlink(Destroy(st, Subtree(st, id)), id)
         IN Ok([st1 EXCEPT !.root = IF id = st.root THEN NoId ELSE @])

(***************************************************************************)
(* The Section facade (odml2/model.py) and the section builder             *)
(* (odml2/builder.py).  A Section is the uuid of a record of a store.      *)
(***************************************************************************)
\* what get and __getitem__ return: a Value is TValue(v)
RList(refs) == [k |-> "list", refs |-> refs]
RSection(uuid) == [k |-> "Section", uuid |-> uuid]
RPayload(p) == [k |-> "payload", p |-> p]
RNone == [k |-> "None"]
RError(e) == [k |-> "error", err |-> e]

\* sec.value_properties and sec.section_properties of the back-end, each in
\* its own order: the two views of the one property map of the data model
value_properties(sec) == SelectSeq(sec.props, LAMBDA e : e.kind = "value")
section_properties(sec) == SelectSeq(sec.props, LAMBDA e : e.kind = "sections")
Keys(props) == [i \in 1..Len(props) |-> props[i].name]
Lookup(props, key) == props[CHOOSE i \in 1..Len(props) : props[i].name = key]

\* Section.type = type
type_setter(st, uuid, type) ==
    IF ~IsTypeName(type) THEN Fail(st, "InvalidIdentifier")
    ELSE section_set_type(st, uuid, type)

\* Section.label = label
label_setter(st, uuid, label) ==
    IF label = NotAString THEN Fail(st, "ValueError")
    ELSE section_set_label(st, uuid, label)

\* Section.reference = reference
reference_setter(st, uuid, reference) ==
    IF reference = NotAString THEN Fail(st, "ValueError")
    ELSE section_set_reference(st, uuid, reference)

\* Section.get
get(st, uuid, key) ==
    IF ~section_exists(st, uuid) THEN RError("NotFound")
    ELSE LET sec == Sec(st, uuid) IN
         IF key \in Range(Keys(value_properties(sec)))
         THEN TValue(Lookup(value_properties(sec), key).value)
         ELSE IF key \in Range(Keys(section_properties(sec)))
         THEN RList(Lookup(section_properties(sec), key).refs)
         ELSE RNone

\* Section.__getitem__ that hands out what get returns
__getitem___as_get(st, uuid, key) ==
    LET element == get(st, uuid, key) IN
    IF element.k = "None" THEN RError("NotFound") ELSE element

\* Section.__getitem__
__getitem__(st, uuid, key) ==
    LET element == get(st, uuid, key) IN
    IF element.k = "None" THEN RError("NotFound")
    ELSE IF element.k = "list" /\ Len(element.refs) = 1 THEN RSection(element.refs[1])
    ELSE IF element.k = "Value" THEN RPayload(element.v.value)
    ELSE element

\* key in self (MutableMapping.__contains__: self[key] raises no KeyError)
__contains__(st, uuid, key) == __getitem__(st, uuid, key).k # "error"

\* Section.__delitem__
__delitem__(st, uuid, key) ==
    IF ~section_exists(st, uuid) THEN Fail(st, "NotFound")
    ELSE LET sec == Sec(st, uuid) IN
         IF key \in Range(Keys(value_properties(sec))) THEN property_remove_value(st, uuid, key)
         ELSE IF key \in Range(Keys(section_properties(sec))) THEN property_remove(st, uuid, key)
         ELSE Fail(st, "NotFound")

\* Section.__len__
__len__(st, uuid) ==
    Len(value_properties(Sec(st, uuid))) + Len(section_properties(Sec(st, uuid)))

\* Section.__iter__ with the section properties first
__iter___sections_first(st, uuid) ==
    Keys(section_properties(Sec(st, uuid))) \o Keys(value_properties(Sec(st, uuid)))

\* Section.__iter__: the value properties, then the section properties
__iter__(st, uuid) ==
    Keys(value_properties(Sec(st, uuid))) \o Keys(section_properties(Sec(st, uuid)))

\* Section.items
items(st, uuid) ==
    [i \in 1..Len(__iter__(st, uuid)) |->
        [name |-> __iter__(st, uuid)[i], thing |-> get(st, uuid, __iter__(st, uuid)[i])]]

\* A builder SB(type, uuid, label, reference, **properties) is
\* [type, uuid, label, reference, properties], properties a sequence of
\* [name, thing]; the things are TObj, TValue, TBad and
TSB(b) == [k |-> "SB", b |-> b]
TList(elems) == [k |-> "list", elems |-> elems]
\* a Section(uuid, back_end): own tells that back_end is the store written to
TSection(own, back_end, uuid) ==
    [k |-> "Section", own |-> own, back_end |-> back_end, uuid |-> uuid]

\* An exception ends the call: the next step K runs on the store r left only
\* when r raised none
Then(r, K(_)) == IF r.err # "none" THEN r ELSE K(r.st)

\* sec.value_properties.set(p, val), val the outcome c of Value.from_obj
SetConverted(st, uuid, p, c) ==
    IF c.err # "none" THEN Fail(st, c.err) ELSE property_set_value(st, uuid, p, c.v)

\* root_create or property_add_section: the first step of SB.build and Section._copy
Create(st, type, uuid, label, reference, parent_uuid, parent_prop) ==
    IF parent_uuid = NoId THEN root_create(st, type, uuid, label, reference)
    ELSE IF parent_prop = None THEN Fail(st, "StructuralError")
    ELSE property_add_section(st, parent_uuid, parent_prop, type, uuid, label, reference)

RECURSIVE _copy(_, _, _, _, _, _)
RECURSIVE CopyList(_, _, _, _, _, _, _)
RECURSIVE CopyItems(_, _, _, _, _)
RECURSIVE CopyList_always(_, _, _, _, _, _, _)

\* a copy of the sections whatever copy_subsections tells
CopyList_always(st, src, uuid, p, refs, copy_subsections, i) ==
    IF i > Len(refs) THEN Ok(st)
    ELSE Then(_copy(st, src, refs[i], uuid, p, copy_subsections),
              LAMBDA s : CopyList_always(s, src, uuid, p, refs, copy_subsections, i + 1))

\* for sub in thing: if copy_subsections: sub._copy(back_end, self.uuid, p, copy_subsections)
CopyList(st, src, uuid, p, refs, copy_subsections, i) ==
    IF i > Len(refs) \/ ~copy_subsections THEN Ok(st)
    ELSE Then(_copy(st, src, refs[i], uuid, p, copy_subsections),
              LAMBDA s : CopyList(s, src, uuid, p, refs, copy_subsections, i + 1))

\* one (p, thing) of self.items(): the sections of a list, or a Value
CopyItem(st, src, uuid, it, copy_subsections) ==
    IF it.thing.k = "list"
    THEN CopyList(st, src, uuid, it.name, it.thing.refs, copy_subsections, 1)
    ELSE property_set_value(st, uuid, it.name, it.thing.v)

\* for p, thing in self.items()
CopyItems(st, src, uuid, copy_subsections, i) ==
    IF i > Len(__iter__(src, uuid)) THEN Ok(st)
    ELSE Then(CopyItem(st, src, uuid, items(src, uuid)[i], copy_subsections),
              LAMBDA s : CopyItems(s, src, uuid, copy_subsections, i + 1))

\* the section self of store src is created in st, then its items are copied
CopySelf(st, src, self, parent_uuid, parent_prop, copy_subsections) ==
    Then(Create(st, self.type, self.uuid, self.label, self.reference, parent_uuid, parent_prop),
         LAMBDA s : CopyItems(s, src, self.uuid, copy_subsections, 1))

\* Section._copy of the section uuid of store src into store st
_copy(st, src, uuid, parent_uuid, parent_prop, copy_subsections) ==
    IF parent_uuid # NoId /\ parent_prop = None THEN Fail(st, "StructuralError")
    ELSE IF ~section_exists(src, uuid) THEN Fail(st, "NotFound")
    ELSE CopySelf(st, src, Sec(src, uuid), parent_uuid, parent_prop, copy_subsections)

\* the store a Section thing reads, st being the store written to
BackEnd(thing, st) == IF thing.own THEN st ELSE thing.back_end

SB(type, uuid, label, reference, properties) ==
    [type |-> type, uuid |-> uuid, label |-> label, reference |-> reference,
     properties |-> properties]
KW(name, thing) == [name |-> name, thing |-> thing]

RECURSIVE build(_, _, _, _)
RECURSIVE BuildList(_, _, _, _, _)
RECURSIVE BuildProps(_, _, _)

\* one sub of a list (builder.py and model.py): a builder is built, a Section
\* copied, and for anything else a ValueError is made but not raised
BuildSub(st, uuid, p, sub) ==
    IF sub.k = "SB" THEN build(st, sub.b, uuid, p)
    ELSE IF sub.k = "Section" THEN _copy(st, BackEnd(sub, st), sub.uuid, uuid, p, TRUE)
    ELSE Ok(st)

\* for sub in thing (builder.py)
BuildList(st, uuid, p, elems, i) ==
    IF i > Len(elems) THEN Ok(st)
    ELSE Then(BuildSub(st, uuid, p, elems[i]),
              LAMBDA s : BuildList(s, uuid, p, elems, i + 1))

\* one (p, thing) of self.properties.items()
BuildProp(st, uuid, p, thing) ==
    IF thing.k = "list" THEN BuildList(st, uuid, p, thing.elems, 1)
    ELSE IF thing.k = "SB" THEN build(st, thing.b, uuid, p)
    ELSE IF thing.k = "Section" THEN _copy(st, BackEnd(thing, st), thing.uuid, uuid, p, TRUE)
    ELSE SetConverted(st, uuid, p, from_obj(thing))

RECURSIVE BuildProps_undo(_, _, _)
\* a property that fails is undone: the store is as it was before the property
BuildProps_undo(st, b, i) ==
    IF i > Len(b.properties) THEN Ok(st)
    ELSE IF BuildProp(st, b.uuid, b.properties[i].name, b.properties[i].thing).err # "none"
    THEN Fail(st, BuildProp(st, b.uuid, b.properties[i].name, b.properties[i].thing).err)
    ELSE BuildProps_undo(BuildProp(st, b.uuid, b.properties[i].name, b.properties[i].thing).st,
                         b, i + 1)

\* for p, thing in self.properties.items()
BuildProps(st, b, i) ==
    IF i > Len(b.properties) THEN Ok(st)
    ELSE Then(BuildProp(st, b.uuid, b.properties[i].name, b.properties[i].thing),
              LAMBDA s : BuildProps(s, b, i + 1))

\* SB.build that goes on when the section could not be created
build_ignoring_failure(st, b, parent_uuid, parent_prop) ==
    BuildProps(Create(st, b.type, b.uuid, b.label, b.reference, parent_uuid, parent_prop).st,
               b, 1)

\* SB.build
build(st, b, parent_uuid, parent_prop) ==
    Then(Create(st, b.type, b.uuid, b.label, b.reference, parent_uuid, parent_prop),
         LAMBDA s : BuildProps(s, b, 1))

RECURSIVE SetList(_, _, _, _, _)
RECURSIVE SetList_last_first(_, _, _, _, _)
\* the elements of the list taken from its end
SetList_last_first(st, uuid, key, elems, i) ==
    IF i > Len(elems) THEN Ok(st)
    ELSE Then(BuildSub(st, uuid, key, elems[Len(elems) + 1 - i]),
              LAMBDA s : SetList_last_first(s, uuid, key, elems, i + 1))

\* for sub in element (model.py)
SetList(st, uuid, key, elems, i) ==
    IF i > Len(elems) THEN Ok(st)
    ELSE Then(BuildSub(st, uuid, key, elems[i]),
              LAMBDA s : SetList(s, uuid, key, elems, i + 1))

\* Section.__setitem__ after the old property is deleted
SetElement(st, uuid, key, element) ==
    IF element.k = "list" THEN SetList(st, uuid, key, element.elems, 1)
    ELSE IF element.k = "SB" THEN build(st, element.b, uuid, key)
    ELSE IF element.k = "Section"
    THEN _copy(st, BackEnd(element, st), element.uuid, uuid, key, TRUE)
    ELSE SetConverted(st, uuid, key, from_obj(element))

\* Section.__setitem__ that sets nothing after it deleted the old property
__setitem___unless_bound(st, uuid, key, element) ==
    IF ~IsName(key) THEN Fail(st, "InvalidIdentifier")
    ELSE IF __contains__(st, uuid, key) THEN __delitem__(st, uuid, key)
    ELSE SetElement(st, uuid, key, element)

\* Section.__setitem__: if key in self: del self[key], then the element is set
\* (a section the store does not hold has no key: the KeyError is swallowed)
__setitem__(st, uuid, key, element) ==
    IF ~IsName(key) THEN Fail(st, "InvalidIdentifier")
    ELSE SetElement(IF __contains__(st, uuid, key) THEN __delitem__(st, uuid, key).st ELSE st,
                    uuid, key, element)

(***************************************************************************)
(* The inputs of the operations                                            *)
(***************************************************************************)
Attrs ==
    {[type |-> "t1", label |-> None, reference |-> None],
     [type |-> "t2", label |-> "l1", reference |-> "r1"]}
A1 == [type |-> "t1", label |-> None, reference |-> None]
A2 == [type |-> "t2", label |-> "l1", reference |-> "r1"]

\* "5mV", which Value.from_obj parses, and Value("007"), a string payload
Str5mV == TObj(PStr(<<"5", "m", "V">>))
V007 == MkValue(PStr(<<"0", "0", "7">>), NoneOpt, NoneOpt)
V5mV == from_obj(Str5mV).v
Scalars == {Str5mV, TValue(V5mV), TBad}
StoreValues == {V5mV}

Nxt(id) == (id % MaxId) + 1

Leaf(a, id) == SB(a.type, id, a.label, a.reference, <<>>)
LeafV(a, id) == SB(a.type, id, a.label, a.reference, <<KW("a", Str5mV)>>)
\* the builders rooted at id
BuildersAt(id) ==
    LET n1 == Nxt(id)
        n2 == Nxt(n1)
        B(a, props) == SB(a.type, id, a.label, a.reference, props)
    IN {\* a section list before a value
        B(A2, <<KW("b", TList(<<TSB(Leaf(A1, n1))>>)), KW("a", Str5mV)>>),
        \* a list of two
        B(A1, <<KW("a", TList(<<TSB(Leaf(A2, n1)), TSB(Leaf(A1, n2))>>))>>),
        \* a chain of three
        B(A2, <<KW("a", TSB(SB("t1", n1, None, "r1", <<KW("b", TSB(Leaf(A2, n2)))>>)))>>)}
\* builders that fail on the way, or hold a thing that is no builder
OddBuilders ==
    {\* a value that cannot be converted, after one that can
     SB("t1", 1, None, None, <<KW("a", Str5mV), KW("b", TBad)>>),
     \* the second of the list has the id of the first
     SB("t1", 1, "l1", None, <<KW("a", TList(<<TSB(Leaf(A2, 2)), TSB(Leaf(A1, 2))>>))>>),
     \* a list that holds a thing that is no builder
     SB("t2", 1, None, "r1", <<KW("b", TList(<<Str5mV, TSB(Leaf(A1, 2))>>))>>)}
Builders ==
    {Leaf(A1, id) : id \in Ids} \cup {LeafV(A2, id) : id \in Ids}
    \cup BuildersAt(1) \cup OddBuilders

\* source documents: other stores, each built by a builder as its root
SourceDocs == {build(EmptyStore, b, NoId, None).st : b \in BuildersAt(1)}
SourceSections ==
    UNION {{TSection(FALSE, d, u) : u \in StoreIds(d)} : d \in SourceDocs}
\* Sections of the store written to, and one of no store
OwnSections == {TSection(TRUE, EmptyStore, u) : u \in Ids}

Lists ==
    {TList(<<>>)}
    \cup {TList(<<TSB(Leaf(A1, id)), TSB(LeafV(A2, Nxt(id)))>>) : id \in Ids}
    \cup {TList(<<TSB(Leaf(A2, 1)), Str5mV>>)}
    \cup {TList(<<s>>) : s \in {x \in SourceSections : x.uuid = MaxId}}

Elements == Scalars \cup {TSB(b) : b \in Builders} \cup Lists \cup SourceSections \cup OwnSections

(***************************************************************************)
(* The grammar as a state machine: a thing is given (arg), converted by    *)
(* Value.from_obj, formatted by str, parsed again and formatted again.     *)
(***************************************************************************)
MaxStrLen == 3

InputAlphabet == {"0", "1", ".", "+", "-", PLUS_MINUS_UNICODE, "e", "m", " "}
ShortStrings == UNION {[1..n -> InputAlphabet] : n \in 0..MaxStrLen}

\* u"10<mu><Omega><+->0.2e-2" and u"10.2kmol" of ValueTest.test_value_from
UnitFirst == <<"1", "0", Mu, Omega, PLUS_MINUS_UNICODE, "0", ".", "2", "e", "-", "2">>
Kmol == <<"1", "0", ".", "2", "k", "m", "o", "l">>
TestStrings ==
    {UnitFirst, Kmol, <<"f", "o", "o">>, <<Micro>>,
     <<"1", "0", PLUS_MINUS_UNICODE, "0", ".", "2", "e", "-", "2", Mu, Omega>>,
     <<"1", "0", "m", "s">>, <<"0", ".", "6", "n", "A", "+", "-", "0", ".", "0", "0", "1">>,
     <<"1", "0", "m", "V", "\n">>, <<"0", "0", "7">>, <<"1", ".", "5", "0", " ", "m", "V">>,
     <<"1", ".", "0", "e", "2", "0">>, <<"0", ".", "0", "0", "0", "0", "1">>,
     <<"1", "m", "m", "/", "s">>, <<"1", "k", "m", "o", "l", "s">>,
     <<"1", "<VT>", "m", "V">>, <<"-", "0", ".", "0">>,
     <<"1", ".", "0", "e", "4", "0", "0">>, <<"1", ".", "0", "e", "-", "4", "0", "0">>,
     <<"4", ".", "9", "e", "-", "3", "2", "4">>,
     <<"1", ".", "0", "1", "e", "-", "3", "2", "2">>,
     <<"3", "0", "7", "e", "-", "3", "2", "4", "m", "V">>}

InputPayloads ==
    {PInt(1), PInt(-5), PInt(100), PFloat([neg |-> FALSE, m |-> 5, e |-> -1]),
     PFloat([neg |-> FALSE, m |-> 1, e |-> 20]), PFloat([neg |-> TRUE, m |-> 102, e |-> -1]),
     PFloat([neg |-> FALSE, m |-> 1, e |-> -5]), PFloat(ZeroF), PBool(TRUE),
     PStr(<<"f", "o", "o">>), PStr(<<"0", "0", "7">>), PStr(<<"+", "5">>),
     PStr(<<"1", "0", " ", "m", "V">>), PStr(<<"2", "0", "1", "1", "-", "1", "0", "-", "3", "1">>)}
InputUnits ==
    {NoneOpt, Some(<<"m", "V">>), Some(<<Mu, Omega>>), Some(<<"m", "m", "/", "s">>)}
InputUncertainties ==
    {NoneOpt, Some([neg |-> FALSE, m |-> 1, e |-> -1]), Some([neg |-> FALSE, m |-> 1, e |-> -5]),
     Some([neg |-> TRUE, m |-> 5, e |-> -1])}
\* every Value the constructor accepts
InputValues ==
    {Value(p, u, c).v : <<p, u, c>> \in
        {x \in InputPayloads \X InputUnits \X InputUncertainties :
            Value(x[1], x[2], x[3]).err = "none"}}

Inputs ==
    {TObj(PStr(s)) : s \in ShortStrings \cup TestStrings}
    \cup {TObj(p) : p \in {q \in InputPayloads : q.t # "str"}}
    \cup {TValue(v) : v \in InputValues}
    \cup {TBad}

\* the call last returned: its operation (op), the section addressed (id),
\* the property (name), the id of the section to create (uuid), the kind of
\* the thing given, the store of a Section given (src), the copy_subsections
\* flag, the error raised and the number of sections the store held when the
\* call was made (size)
TAttr(a) == [k |-> "attr", a |-> a]
MkLast(op, id, name, uuid, thing, deep, err) ==
    [op |-> op, id |-> id, name |-> name, uuid |-> uuid, kind |-> thing.k,
     src |-> IF thing.k = "Section" THEN thing.back_end ELSE EmptyStore,
     deep |-> deep, err |-> err, size |-> 0]
\* the id of the section a builder or a Section given stands for
TopId(thing) ==
    IF thing.k = "SB" THEN thing.b.uuid
    ELSE IF thing.k = "Section" THEN thing.uuid ELSE NoId
NoLast == MkLast("idle", NoId, None, NoId, RNone, FALSE, "none")

\* v = from_obj(arg), text = str(v), w = value_from(text), again = str(w)
NoOut ==
    [op |-> "init", err |-> "none", v |-> NoValue, text |-> <<>>, w |-> NoValue,
     again |-> <<>>]

InitValue ==
    /\ arg \in Inputs
    /\ out = NoOut
    /\ store = EmptyStore
    /\ last = NoLast

\* v = Value.from_obj(arg)
FromObj ==
    /\ out.op = "init"
    /\ out' = [out EXCEPT !.op = "from_obj", !.err = from_obj(arg).err, !.v = from_obj(arg).v]
    /\ UNCHANGED <<arg, store, last>>

\* text = str(v)
Str ==
    /\ out.op = "from_obj" /\ out.err = "none"
    /\ out' = [out EXCEPT !.op = "str", !.text = ValueStr(out.v)]
    /\ UNCHANGED <<arg, store, last>>

\* w = value_from(text)
Reparse ==
    /\ out.op = "str"
    /\ out' = [out EXCEPT !.op = "reparse",
                          !.err = from_obj(TObj(PStr(out.text))).err,
                          !.w = from_obj(TObj(PStr(out.text))).v]
    /\ UNCHANGED <<arg, store, last>>

\* again = str(w)
Restr ==
    /\ out.op = "reparse" /\ out.err = "none"
    /\ out' = [out EXCEPT !.op = "restr", !.again = ValueStr(out.w)]
    /\ UNCHANGED <<arg, store, last>>

NextValue == FromObj \/ Str \/ Reparse \/ Restr

SpecValue == InitValue /\ [][NextValue]_vars


Init ==
    /\ store = EmptyStore
    /\ last = NoLast
    /\ arg = TBad
    /\ out = NoOut

\* the number of properties a store holds
RECURSIVE SumProps(_)
SumProps(secs) ==
    IF secs = {} THEN 0
    ELSE LET s == CHOOSE x \in secs : TRUE IN Len(s.props) + SumProps(secs \ {s})
\* the attributes the setters give are "t3", "l2" and "r2", which no section
\* is created with; the stores that hold one are explored up to MaxReset
\* sections
MaxReset == 1
Altered(st) ==
    \E s \in st.sections : s.type = "t3" \/ s.label = "l2" \/ s.reference = "r2"
Fits(st) ==
    /\ SumProps(st.sections) <= MaxProps
    /\ Altered(st) => Cardinality(st.sections) <= MaxReset

\* an operation is called when the last one has returned
Idle == last.op = "idle"
Done(r, l) ==
    /\ Fits(r.st)
    /\ store' = r.st
    /\ last' = [l EXCEPT !.err = r.err, !.size = Cardinality(store.sections)]
    /\ UNCHANGED <<arg, out>>

\* back_end.root_create(type, id, label, reference)
RootCreate ==
    /\ Idle
    /\ \E a \in Attrs, id \in Ids :
           Done(root_create(store, a.type, id, a.label, a.reference),
                MkLast("root_create", NoId, None, id, TAttr(a), FALSE, "none"))

\* back_end.property_add_section(parent_id, name, type, child_id, label, reference)
PropertyAddSection ==
    /\ Idle
    /\ \E parent_id \in Ids, name \in Names \cup {BadName}, a \in Attrs, child_id \in Ids :
           Done(property_add_section(store, parent_id, name, a.type, child_id, a.label, a.reference),
                MkLast("property_add_section", parent_id, name, child_id, TAttr(a), FALSE, "none"))

\* back_end.property_set_value(id, name, value)
PropertySetValue ==
    /\ Idle
    /\ \E id \in Ids, name \in Names \cup {BadName}, v \in StoreValues :
           Done(property_set_value(store, id, name, v),
                MkLast("property_set_value", id, name, NoId, TValue(v), FALSE, "none"))

\* back_end.property_remove_value(id, name)
PropertyRemoveValue ==
    /\ Idle
    /\ \E id \in Ids, name \in Names :
           Done(property_remove_value(store, id, name),
                MkLast("property_remove_value", id, name, NoId, RNone, FALSE, "none"))

\* back_end.property_remove(id, name)
PropertyRemove ==
    /\ Idle
    /\ \E id \in Ids, name \in Names :
           Done(property_remove(store, id, name),
                MkLast("property_remove", id, name, NoId, RNone, FALSE, "none"))

\* back_end.section_remove(id)
SectionRemove ==
    /\ Idle
    /\ \E id \in Ids :
           Done(section_remove(store, id),
                MkLast("section_remove", id, None, NoId, RNone, FALSE, "none"))

\* section[key] = element
SetItem ==
    /\ Idle
    /\ \E uuid \in Ids, key \in Names \cup {BadName}, element \in Elements :
           Done(__setitem__(store, uuid, key, element),
                MkLast("setitem", uuid, key, TopId(element), element, TRUE, "none"))

\* del section[key]
DelItem ==
    /\ Idle
    /\ \E uuid \in Ids, key \in Names :
           Done(__delitem__(store, uuid, key),
                MkLast("delitem", uuid, key, NoId, RNone, FALSE, "none"))

\* builder.build(back_end, parent_uuid, parent_prop)
Build ==
    /\ Idle
    /\ \E b \in Builders, parent_uuid \in Ids \cup {NoId}, parent_prop \in {"a", BadName, None} :
           Done(build(store, b, parent_uuid, parent_prop),
                MkLast("build", parent_uuid, parent_prop, b.uuid, TSB(b), TRUE, "none"))

\* section._copy(back_end, parent_uuid, parent_prop, copy_subsections)
Copy ==
    /\ Idle
    /\ \E s \in SourceSections \cup OwnSections, parent_uuid \in Ids \cup {NoId},
          parent_prop \in {"b", None}, copy_subsections \in BOOLEAN :
           Done(_copy(store, BackEnd(s, store), s.uuid, parent_uuid, parent_prop, copy_subsections),
                MkLast("copy", parent_uuid, parent_prop, s.uuid, s, copy_subsections, "none"))

\* section.type = type
SetType ==
    /\ Idle
    /\ \E uuid \in Ids, type \in {"t3", BadName} :
           Done(type_setter(store, uuid, type),
                MkLast("set_type", uuid, type, NoId, RNone, FALSE, "none"))

\* section.label = label
SetLabel ==
    /\ Idle
    /\ \E uuid \in Ids, label \in {"l2", NotAString} :
           Done(label_setter(store, uuid, label),
                MkLast("set_label", uuid, label, NoId, RNone, FALSE, "none"))

\* section.reference = reference
SetReference ==
    /\ Idle
    /\ \E uuid \in Ids, reference \in {"r2", NotAString} :
           Done(reference_setter(store, uuid, reference),
                MkLast("set_reference", uuid, reference, NoId, RNone, FALSE, "none"))

\* the call returns to its caller (an error is caught there)
Return ==
    /\ last.op # "idle"
    /\ last' = NoLast
    /\ UNCHANGED <<store, arg, out>>

Next ==
    \/ Return
    \/ RootCreate
    \/ PropertyAddSection
    \/ PropertySetValue
    \/ PropertyRemoveValue
    \/ PropertyRemove
    \/ SectionRemove
    \/ SetItem
    \/ DelItem
    \/ Build
    \/ Copy
    \/ SetType
    \/ SetLabel
    \/ SetReference

Spec == Init /\ [][Next]_vars

(***************************************************************************)
(* Serialization (odml2/api/yml.py).  YamlDocument.save dumps the ordered   *)
(* mapping to_dict() of the store and load hands the mapping read to        *)
(* from_dict(); both are methods of the memory back-end.  The mapping of a  *)
(* section is its id, type, label, reference and properties, a property     *)
(* being the text of its Value or the mappings of its sections.  The YAML   *)
(* text is taken as the mapping it encodes.                                 *)
(***************************************************************************)
ValueEntry(name, text) == [name |-> name, kind |-> "value", text |-> text, items |-> <<>>]
SectionsEntry(name, maps) == [name |-> name, kind |-> "sections", text |-> <<>>, items |-> maps]

RECURSIVE SectionToDict(_, _)
SectionToDict(st, id) ==
    LET sec == Sec(st, id) IN
    [uuid |-> id, type |-> sec.type, label |-> sec.label, reference |-> sec.reference,
     properties |->
        [i \in 1..Len(sec.props) |->
            IF sec.props[i].kind = "value"
            THEN ValueEntry(sec.props[i].name, ValueStr(sec.props[i].value))
            ELSE SectionsEntry(sec.props[i].name,
                               [j \in 1..Len(sec.props[i].refs) |->
                                   SectionToDict(st, sec.props[i].refs[j])])]]

\* MemDocument.to_dict: no mapping (<<>>) for a store without root
to_dict(st) == IF root_exists(st) THEN <<SectionToDict(st, root_get(st))>> ELSE <<>>

RECURSIVE PropertiesFromDict(_, _, _, _)
RECURSIVE SectionsFromDict(_, _, _, _, _)

\* one section mapping m of a list: the child is added, then its properties
SectionFromDict(st, id, name, m) ==
    Then(property_add_section(st, id, name, m.type, m.uuid, m.label, m.reference),
         LAMBDA s : PropertiesFromDict(s, m.uuid, m.properties, 1))

\* the sections of a list, each with its properties, in document order
SectionsFromDict(st, id, name, maps, j) ==
    IF j > Len(maps) THEN Ok(st)
    ELSE Then(SectionFromDict(st, id, name, maps[j]),
              LAMBDA s : SectionsFromDict(s, id, name, maps, j + 1))

\* one property e: a text is parsed to a Value
PropertyFromDict(st, id, e) ==
    IF e.kind = "value"
    THEN property_set_value(st, id, e.name, from_obj(TObj(PStr(e.text))).v)
    ELSE SectionsFromDict(st, id, e.name, e.items, 1)

\* the properties of a section in document order
PropertiesFromDict(st, id, entries, i) ==
    IF i > Len(entries) THEN Ok(st)
    ELSE Then(PropertyFromDict(st, id, entries[i]),
              LAMBDA s : PropertiesFromDict(s, id, entries, i + 1))

\* the root mapping m: the root is created, then its properties
RootFromDict(st, m) ==
    Then(root_create(st, m.type, m.uuid, m.label, m.reference),
         LAMBDA s : PropertiesFromDict(s, m.uuid, m.properties, 1))

\* MemDocument.from_dict
from_dict(st, data) == IF data = <<>> THEN Ok(st) ELSE RootFromDict(st, data[1])

\* YamlDocument.save: what is written
save(st) == to_dict(st)
\* yaml.load(dest): PyYAML from 6.0 on has no default Loader and raises
\* TypeError; which PyYAML is installed is not the program's choice
yaml_load(data, default_loader) ==
    IF default_loader THEN [data |-> data, err |-> "none"]
    ELSE [data |-> <<>>, err |-> "TypeError"]
\* YamlDocument.load of what was written into the store st
load(st, data, default_loader) ==
    IF yaml_load(data, default_loader).err # "none"
    THEN Fail(st, yaml_load(data, default_loader).err)
    ELSE from_dict(st, yaml_load(data, default_loader).data)

\* The documents saved: built by a builder with one of these things as values
YamlThings ==
    {Str5mV, TValue(V007), TObj(PInt(-5)), TObj(PStr(<<"f", "o", "o">>)),
     TObj(PFloat(Normalize(FALSE, 5, -1))),
     TValue(MkValue(PFloat(Normalize(FALSE, 8, -1)), Some(<<"n", "A">>),
                    Some(Normalize(FALSE, 1, -3)))),
     TValue(MkValue(PInt(5), Some(<<"m", "s">>), NoneOpt)),
     TObj(PStr(<<"0", ".", "6", "n", "A", "+", "-", "0", ".", "0", "0", "1">>))}
YamlBuilders ==
    {SB(a.type, 1, a.label, a.reference, <<KW("a", x)>>) : a \in Attrs, x \in YamlThings}
    \cup {SB("t1", 1, "l1", None,
             <<KW("b", TList(<<TSB(SB("t2", 2, None, "r1", <<KW("a", x)>>)),
                              TSB(SB("t1", 3, None, None, <<KW("b", y)>>))>>)),
               KW("a", y)>>) : x \in YamlThings, y \in {Str5mV, TObj(PInt(-5))}}
    \cup {SB("t2", 1, None, None,
             <<KW("a", TSB(SB("t1", 2, "l1", "r1",
                              <<KW("a", x), KW("b", TSB(Leaf(A2, 3)))>>)))>>) : x \in YamlThings}

\* out of the serialization: the document built, what was saved first and
\* what was saved after loading
NoSaved == [op |-> "init", doc |-> EmptyStore, first |-> <<>>, second |-> <<>>]

InitYaml ==
    /\ arg \in {TSB(b) : b \in YamlBuilders}
    /\ store = EmptyStore
    /\ out = NoSaved
    /\ last = NoLast

\* doc.root = SB(...)
BuildDocument ==
    /\ out.op = "init"
    /\ build(store, arg.b, NoId, None).err = "none"
    /\ store' = build(store, arg.b, NoId, None).st
    /\ out' = [out EXCEPT !.op = "built", !.doc = build(store, arg.b, NoId, None).st]
    /\ UNCHANGED <<arg, last>>

\* be.save(str_io)
Save ==
    /\ out.op = "built"
    /\ out' = [out EXCEPT !.op = "saved", !.first = save(store)]
    /\ UNCHANGED <<arg, store, last>>

\* be = YamlBackEnd(); be.load(str_io)
Load ==
    /\ out.op = "saved"
    /\ \E default_loader \in BOOLEAN :
          /\ store' = load(EmptyStore, out.first, default_loader).st
          /\ out' = [out EXCEPT !.op =
                        IF load(EmptyStore, out.first, default_loader).err = "none"
                        THEN "loaded" ELSE "load failed"]
    /\ UNCHANGED <<arg, last>>

\* be.save(str_io) of the store loaded
SaveAgain ==
    /\ out.op = "loaded"
    /\ out' = [out EXCEPT !.op = "saved again", !.second = save(store)]
    /\ UNCHANGED <<arg, store, last>>

NextYaml == BuildDocument \/ Save \/ Load \/ SaveAgain

SpecYaml == InitYaml /\ [][NextYaml]_vars

(***************************************************************************)
(* Properties of the value grammar (under SpecValue)                       *)
(***************************************************************************)
\* the numeric literal holds a decimal point or an exponent
HasPointOrExp(num) == \E i \in 1..Len(num) : num[i] \in {".", "e", "E"}

\* C4: value_from parses a numeric string whose unit precedes the
\* uncertainty: "10<mu><Omega><+->0.2e-2" gives the int 10, the unit
\* "<mu><Omega>" and the uncertainty 0.002, "10.2kmol" gives the float 10.2,
\* the unit "kmol" and no uncertainty; the payload is an int when the literal
\* has no decimal point or exponent and a float otherwise, and a string that
\* does not match becomes a plain string Value.
C4_UnitBeforeUncertainty ==
    (out.op = "from_obj" /\ arg.k = "obj" /\ arg.p.t = "str") =>
        LET s == arg.p.s
            ms == VALUE_EXPR(s)
        IN /\ out.err = "none"
           /\ s = UnitFirst =>
                out.v = MkValue(PInt(10), Some(<<Mu, Omega>>), Some(Normalize(FALSE, 2, -3)))
           /\ s = Kmol =>
                out.v = MkValue(PFloat(Normalize(FALSE, 102, -1)),
                                Some(<<"k", "m", "o", "l">>), NoneOpt)
           /\ ms # {} =>
                /\ out.v.value.t \in {"int", "float"}
                /\ \A g \in ms : (out.v.value.t = "float") <=> HasPointOrExp(g.num)
           /\ ms = {} => out.v = MkValue(PStr(s), NoneOpt, NoneOpt)

\* C4: what the code returns for the string of the test: a plain string
C4_UnitFirstIsString ==
    /\ arg = TObj(PStr(UnitFirst))
    /\ out.op = "from_obj"
    /\ out.v = MkValue(PStr(UnitFirst), NoneOpt, NoneOpt)

\* C5: formatting and parsing are mutually inverse: for every Value v,
\* value_from(str(v)) equals v when its payload is numeric, and
\* str(value_from(str(v))) == str(v) in all cases.
C5_RoundTrip ==
    /\ (out.op = "reparse" /\ IsNumber(out.v.value)) => ValueEq(out.w, out.v)
    /\ out.op = "restr" => out.again = out.text

\* C5: the string payload "007" is formatted as "007" and parsed as the int 7
C5_LeadingZerosLost ==
    /\ arg = TValue(MkValue(PStr(<<"0", "0", "7">>), NoneOpt, NoneOpt))
    /\ out.op = "restr"
    /\ out.text = <<"0", "0", "7">>
    /\ out.again = <<"7">>

(***************************************************************************)
(* Properties of the store and of the Section facade (under Spec)          *)
(***************************************************************************)
\* C1: after section_remove(id) neither id nor any section owned,
\* transitively, through id's properties exists, every section outside that
\* subtree still exists, and there is no root when id was the root.
C1_SectionRemoveCascades ==
    [][(last'.op = "section_remove" /\ last'.err = "none") =>
        LET id == last'.id IN
        /\ section_exists(store, id)
        /\ \A x \in Subtree(store, id) : ~section_exists(store', x)
        /\ \A x \in StoreIds(store) \ Subtree(store, id) : section_exists(store', x)
        /\ id = root_get(store) => ~root_exists(store')
        /\ id # root_get(store) => root_get(store') = root_get(store)]_vars

\* C1: a section_remove that took a section and one it owns, and left its parent
C1_SubtreeRemoved ==
    /\ last.op = "section_remove" /\ last.err = "none"
    /\ last.size >= Cardinality(store.sections) + 2
    /\ root_exists(store)
    /\ ~section_exists(store, last.id)

\* the section x of st holds what section x of src holds: its type, label and
\* reference, its values and then its section lists, each in their order
CopyOf(src, st, x) ==
    /\ section_exists(st, x)
    /\ section_get_type(st, x) = section_get_type(src, x)
    /\ section_get_label(st, x) = section_get_label(src, x)
    /\ section_get_reference(st, x) = section_get_reference(src, x)
    /\ Sec(st, x).props = value_properties(Sec(src, x)) \o section_properties(Sec(src, x))

\* the section uuid created by the call is the root, or the last of the list
\* name of the section id
Attached(st, id, name, uuid) ==
    IF id = NoId THEN root_get(st) = uuid
    ELSE /\ property_has_sections(st, id, name)
         /\ property_get_sections(st, id, name)[Len(property_get_sections(st, id, name))] = uuid

\* a _copy of a Section of another store that returned without error
CopiedFromOtherStore(l, deep) ==
    /\ l.op = "copy" /\ l.err = "none" /\ l.deep = deep
    /\ l.kind = "Section" /\ l.src # EmptyStore

\* Section._copy as it is written: a copy with copy_subsections=True of a
\* Section of another store creates a subtree of the same shape (types,
\* labels, references, property names, values, child order) in which every
\* section has the id of its source section.
DeepCopyKeepsSourceIds ==
    [][CopiedFromOtherStore(last', TRUE) =>
        /\ StoreIds(store') = StoreIds(store) \cup Subtree(last'.src, last'.uuid)
        /\ StoreIds(store) \cap Subtree(last'.src, last'.uuid) = {}
        /\ \A x \in Subtree(last'.src, last'.uuid) : CopyOf(last'.src, store', x)
        /\ Attached(store', last'.id, last'.name, last'.uuid)]_vars

\* C2: a copy of a section with a value, a section list and the section it owns
C2_SubtreeCopied ==
    /\ CopiedFromOtherStore(last, TRUE)
    /\ Cardinality(Subtree(last.src, last.uuid)) >= 2
    /\ value_properties(Sec(last.src, last.uuid)) # <<>>
    /\ Cardinality(store.sections) = last.size + Cardinality(Subtree(last.src, last.uuid))

\* the sections of st created from the subtree of u in src have the same
\* shape under the renaming f of ids
SameShapeUnder(f, src, st, u) ==
    \A x \in Subtree(src, u) :
        /\ section_exists(st, f[x])
        /\ section_get_type(st, f[x]) = section_get_type(src, x)
        /\ section_get_label(st, f[x]) = section_get_label(src, x)
        /\ section_get_reference(st, f[x]) = section_get_reference(src, x)
        /\ LET ps == value_properties(Sec(src, x)) \o section_properties(Sec(src, x))
               qs == Sec(st, f[x]).props
           IN /\ Len(qs) = Len(ps)
              /\ \A i \in 1..Len(ps) :
                    /\ qs[i].name = ps[i].name /\ qs[i].kind = ps[i].kind
                    /\ qs[i].value = ps[i].value
                    /\ qs[i].refs = [j \in 1..Len(ps[i].refs) |-> f[ps[i].refs[j]]]

\* C2: the copy has the same shape and every copied section has a
\* fresh id: no id of the copy equals the id of its source section.
C2_DeepCopyFreshIds ==
    [][CopiedFromOtherStore(last', TRUE) =>
        LET old == Subtree(last'.src, last'.uuid)
            new == StoreIds(store') \ StoreIds(store)
        IN \E f \in [old -> new] :
              /\ \A x \in old : f[x] # x
              /\ \A x, y \in old : f[x] = f[y] => x = y
              /\ SameShapeUnder(f, last'.src, store', last'.uuid)]_vars

\* C7: a copy with copy_subsections=False creates exactly one section, with
\* the type, label and reference of the source and all of its value
\* properties, and none of its child sections or section-list properties.
C7_ShallowCopy ==
    [][CopiedFromOtherStore(last', FALSE) =>
        LET x == last'.uuid IN
        /\ StoreIds(store') = StoreIds(store) \cup {x}
        /\ x \notin StoreIds(store)
        /\ section_get_type(store', x) = section_get_type(last'.src, x)
        /\ section_get_label(store', x) = section_get_label(last'.src, x)
        /\ section_get_reference(store', x) = section_get_reference(last'.src, x)
        /\ Sec(store', x).props = value_properties(Sec(last'.src, x))
        /\ Children(store', x) = {}
        /\ Attached(store', last'.id, last'.name, x)]_vars

\* C7: a shallow copy of a section that has a value and child sections
C7_ShallowCopied ==
    /\ CopiedFromOtherStore(last, FALSE)
    /\ value_properties(Sec(last.src, last.uuid)) # <<>>
    /\ Children(last.src, last.uuid) # {}
    /\ Cardinality(store.sections) = last.size + 1

\* C3: setting a property that holds a section list to a scalar replaces it:
\* afterwards the name is bound to the Value only, and no section that was
\* owned through the old list, nor any of their descendants, exists.
C3_ScalarReplacesSections ==
    [][(/\ last'.op = "setitem" /\ last'.err = "none"
        /\ last'.kind \in {"obj", "Value"}
        /\ property_has_sections(store, last'.id, last'.name)) =>
        LET id == last'.id
            name == last'.name
            old == Owned(store, Range(property_get_sections(store, id, name)))
        IN /\ property_has_value(store', id, name)
           /\ ~property_has_sections(store', id, name)
           /\ Cardinality(PropAt(Sec(store', id), name)) = 1
           /\ \E e \in Scalars :
                 /\ from_obj(e).err = "none"
                 /\ get(store', id, name) = TValue(from_obj(e).v)
           /\ \A x \in old : ~section_exists(store', x)
           /\ StoreIds(store') = StoreIds(store) \ old]_vars

\* C3: a scalar was set where a list held a section that owned another
C3_SectionsReplaced ==
    /\ last.op = "setitem" /\ last.err = "none" /\ last.kind = "obj"
    /\ last.size >= Cardinality(store.sections) + 2
    /\ property_has_value(store, last.id, last.name)

\* no two section records share an id
UniqueIds(st) == \A s, u \in st.sections : s.uuid = u.uuid => s = u
\* the sections no section list holds
Parentless(st) == StoreIds(st) \ UNION {Children(st, x) : x \in StoreIds(st)}
\* at most one root: the root is a section, and the only one no list holds
OneRoot(st) ==
    /\ root_exists(st) => section_exists(st, root_get(st))
    /\ Parentless(st) \subseteq {root_get(st)}

\* the Section the call l was given is one of an existing section
SourceExists(st, l) ==
    l.kind = "Section" => section_exists(IF l.src = EmptyStore THEN st ELSE l.src, l.uuid)

\* the call l creates a section as the root, or appends it to a list of an
\* existing section under a valid name
CreatesSection(st, l) ==
    \/ l.op = "root_create"
    \/ l.op = "property_add_section" /\ IsName(l.name) /\ section_exists(st, l.id)
    \/ /\ l.op \in {"build", "copy"} /\ SourceExists(st, l)
       /\ l.id = NoId \/ (IsName(l.name) /\ section_exists(st, l.id))
    \/ /\ l.op = "setitem" /\ l.kind \in {"SB", "Section"} /\ SourceExists(st, l)
       /\ IsName(l.name) /\ section_exists(st, l.id) /\ ~__contains__(st, l.id, l.name)

\* C8: section ids are unique and creation fails cleanly: root_create when a
\* root exists or the id is used, and property_add_section (a builder or
\* Section graft included) with an id that exists, fail with AlreadyExists and
\* leave the store unchanged; no two section records share an id and there
\* is at most one root.
C8_UniqueIdsCleanFailure ==
    [][/\ (/\ CreatesSection(store, last')
           /\ \/ section_exists(store, last'.uuid)
              \/ (last'.id = NoId /\ last'.op # "property_add_section" /\ root_exists(store)))
          => (last'.err = "AlreadyExists" /\ store' = store)
       /\ UniqueIds(store') /\ OneRoot(store')]_vars

\* C8: a builder grafted under a section with the id of a section that exists
C8_DuplicateRefused ==
    /\ last.op = "build" /\ last.id # NoId /\ IsName(last.name)
    /\ last.err = "AlreadyExists"
    /\ section_exists(store, last.uuid)
    /\ Cardinality(store.sections) = last.size

\* the names of the sequence that satisfy Test, in their order
NamesWhere(names, Test(_)) == SelectSeq(names, Test)
NoDuplicates(seq) == \A i, j \in 1..Len(seq) : seq[i] = seq[j] => i = j

\* C9 (as the code has it): section_get_properties(id) lists exactly the
\* bound names, each once, a name newly bound by property_set_value or
\* property_add_section going to the end; iterating a Section yields the
\* names bound to values first and the names bound to section lists after
\* them, each group in that order, and len(section) is the number of names.
C9_IterValuesThenSections ==
    Idle =>
    \A id \in StoreIds(store) :
        LET names == section_get_properties(store, id)
            IsValue(n) == property_has_value(store, id, n)
            IsList(n) == property_has_sections(store, id, n)
            Added(r, n) ==
                r.err = "none" =>
                    section_get_properties(r.st, id) =
                        IF n \in Range(names) THEN names ELSE Append(names, n)
        IN /\ NoDuplicates(names)
           /\ \A n \in Names \cup {BadName} :
                 n \in Range(names) <=> (IsValue(n) \/ IsList(n))
           /\ __iter__(store, id) = NamesWhere(names, IsValue) \o NamesWhere(names, IsList)
           /\ __len__(store, id) = Len(names)
           /\ \A n \in Names, v \in StoreValues :
                 Added(property_set_value(store, id, n, v), n)
           /\ \A n \in Names, a \in Attrs, child_id \in Ids :
                 Added(property_add_section(store, id, n, a.type, child_id, a.label, a.reference), n)

\* C9: a section whose first property is a section list and whose second is a
\* value, iterated with the value first
C9_ListBeforeValue ==
    \E id \in StoreIds(store) :
        /\ section_get_properties(store, id) = <<"b", "a">>
        /\ property_has_sections(store, id, "b")
        /\ property_has_value(store, id, "a")
        /\ __iter__(store, id) = <<"a", "b">>
        /\ __len__(store, id) = 2

\* C9 (as stated): iterating a Section yields the names in the order of
\* section_get_properties, the insertion order regardless of kind, and
\* len(section) is its length.
C9_IterInsertionOrder ==
    \A id \in StoreIds(store) :
        /\ __iter__(store, id) = section_get_properties(store, id)
        /\ __len__(store, id) = Len(section_get_properties(store, id))

\* C10 (as the code has it), read when no call is under way: get(name)
\* returns the Value itself when the property is a value, the list of its Sections in store order when it is a
\* section list of any length, and None when it is absent; section[name]
\* returns the payload of the Value, the single Section of a list of length
\* 1, the list when it is longer, and raises a not-found error when absent.
C10_GetAndSubscript ==
    Idle =>
    \A id \in StoreIds(store), name \in Names \cup {BadName} :
        /\ property_has_value(store, id, name) =>
            /\ get(store, id, name) = TValue(property_get_value(store, id, name))
            /\ __getitem__(store, id, name) = RPayload(property_get_value(store, id, name).value)
        /\ property_has_sections(store, id, name) =>
            LET refs == property_get_sections(store, id, name) IN
            /\ get(store, id, name) = RList(refs)
            /\ Len(refs) = 1 => __getitem__(store, id, name) = RSection(refs[1])
            /\ Len(refs) > 1 => __getitem__(store, id, name) = RList(refs)
        /\ (~property_has_value(store, id, name) /\ ~property_has_sections(store, id, name)) =>
            /\ get(store, id, name) = RNone
            /\ __getitem__(store, id, name) = RError("NotFound")

\* C10: a section read that holds a value, a list of one section and no "!"
C10_ValueAndSingleSection ==
    \E id \in StoreIds(store) :
        /\ property_has_value(store, id, "a")
        /\ property_has_sections(store, id, "b")
        /\ Len(property_get_sections(store, id, "b")) = 1
        /\ get(store, id, "a").k = "Value"
        /\ get(store, id, "b").k = "list"
        /\ __getitem__(store, id, "b").k = "Section"

\* C10 (as stated): get(name) returns the payload of a value, the single
\* Section of a list of length 1, the list of a longer one and None when the
\* property is absent; section[name] on an absent property raises not-found.
C10_GetReturnsPayload ==
    \A id \in StoreIds(store), name \in Names \cup {BadName} :
        /\ property_has_value(store, id, name) =>
            get(store, id, name) = RPayload(property_get_value(store, id, name).value)
        /\ property_has_sections(store, id, name) =>
            LET refs == property_get_sections(store, id, name) IN
            /\ Len(refs) = 1 => get(store, id, name) = RSection(refs[1])
            /\ Len(refs) > 1 => get(store, id, name) = RList(refs)
        /\ (~property_has_value(store, id, name) /\ ~property_has_sections(store, id, name)) =>
            /\ get(store, id, name) = RNone
            /\ __getitem__(store, id, name) = RError("NotFound")

(***************************************************************************)
(* Properties of the serialization (under SpecYaml)                        *)
(***************************************************************************)
\* the stores hold the same sections: ids, types, labels, references,
\* property order and values (compared as Value.__eq__ does)
SameStore(st, other) ==
    /\ root_get(st) = root_get(other)
    /\ StoreIds(st) = StoreIds(other)
    /\ \A id \in StoreIds(st) :
          /\ section_get_type(st, id) = section_get_type(other, id)
          /\ section_get_label(st, id) = section_get_label(other, id)
          /\ section_get_reference(st, id) = section_get_reference(other, id)
          /\ section_get_properties(st, id) = section_get_properties(other, id)
          /\ \A n \in Names :
                /\ property_has_value(st, id, n) <=> property_has_value(other, id, n)
                /\ property_has_sections(st, id, n) <=> property_has_sections(other, id, n)
                /\ property_has_value(st, id, n) /\ property_has_value(other, id, n) =>
                      /\ ValueEq(property_get_value(st, id, n), property_get_value(other, id, n))
                      /\ property_get_value(st, id, n).value.t
                            = property_get_value(other, id, n).value.t
                /\ property_has_sections(st, id, n) /\ property_has_sections(other, id, n) =>
                      property_get_sections(st, id, n) = property_get_sections(other, id, n)

\* C6: serialization round-trips: saving a store built by the public
\* operations, loading the output into an empty store and saving again gives
\* output identical to the first, and the loaded store has the same ids,
\* types, labels, references, property order and values.
C6_SaveLoadRoundTrip ==
    /\ out.op \in {"loaded", "saved again"} => SameStore(store, out.doc)
    /\ out.op = "saved again" => out.second = out.first

\* C6: the document whose value is the string "007" is loaded with the int 7
\* and saved again as "7"
C6_LoadedValueDiffers ==
    /\ out.op = "saved again"
    /\ property_has_value(out.doc, 1, "a") /\ property_get_value(out.doc, 1, "a") = V007
    /\ property_get_value(store, 1, "a") = MkValue(PInt(7), NoneOpt, NoneOpt)
    /\ out.second # out.first

(***************************************************************************)
(* Properties of grafts and of failing calls (under Spec)                  *)
(***************************************************************************)
\* the lists given that hold builders only, and at least one
BuilderLists ==
    {l \in Lists : l.elems # <<>> /\ \A i \in 1..Len(l.elems) : l.elems[i].k = "SB"}

\* C11: setting a property of a Section to a list of builders and reading it
\* back yields one Section per builder, in the order of the list, each with
\* the id, type and label of its builder.
C11_ListOfBuildersReadBack ==
    Idle =>
    \A uuid \in StoreIds(store), key \in Names, l \in BuilderLists :
        LET r == __setitem__(store, uuid, key, l) IN
        r.err = "none" =>
            /\ get(r.st, uuid, key) = RList([i \in 1..Len(l.elems) |-> l.elems[i].b.uuid])
            /\ \A i \in 1..Len(l.elems) :
                  /\ section_get_type(r.st, l.elems[i].b.uuid) = l.elems[i].b.type
                  /\ section_get_label(r.st, l.elems[i].b.uuid) = l.elems[i].b.label

\* C11: a list of two builders was set and the property holds two sections
C11_TwoBuildersSet ==
    /\ last.op = "setitem" /\ last.kind = "list" /\ last.err = "none"
    /\ property_has_sections(store, last.id, last.name)
    /\ Len(property_get_sections(store, last.id, last.name)) = 2
    /\ get(store, last.id, last.name).k = "list"

\* C12: for all valid (type, id, label, reference), after root_create on an
\* empty store root_exists() is true, root_get() returns id,
\* section_exists(id) is true and section_get_type, section_get_label and
\* section_get_reference return exactly the values passed.
C12_RootCreateReadBack ==
    [][(last'.op = "root_create" /\ store = EmptyStore) =>
        /\ last'.err = "none"
        /\ root_exists(store') /\ root_get(store') = last'.uuid
        /\ section_exists(store', last'.uuid)
        /\ StoreIds(store') = {last'.uuid}
        /\ \A a \in Attrs, id \in Ids :
              LET r == root_create(store, a.type, id, a.label, a.reference) IN
              /\ r.err = "none"
              /\ root_exists(r.st) /\ root_get(r.st) = id /\ section_exists(r.st, id)
              /\ section_get_type(r.st, id) = a.type
              /\ section_get_label(r.st, id) = a.label
              /\ section_get_reference(r.st, id) = a.reference
              /\ (a.type = section_get_type(store', last'.uuid) /\ id = last'.uuid
                    /\ a.label = section_get_label(store', last'.uuid)) => store' = r.st]_vars

\* C12: a root with a label and a reference was created in an empty store
C12_RootCreated ==
    /\ last.op = "root_create" /\ last.err = "none" /\ last.size = 0
    /\ root_exists(store) /\ root_get(store) = last.uuid
    /\ section_get_type(store, last.uuid) = "t2"
    /\ section_get_label(store, last.uuid) = "l1"
    /\ section_get_reference(store, last.uuid) = "r1"

\* C14: a single set(name, thing) of a Section that fails leaves the section
\* unchanged: when thing cannot be converted to a Value or name is invalid,
\* the property bound to name before, and the sections it owned, are still
\* there with the same content after the call.
C14_FailedSetChangesNothing ==
    [][(/\ last'.op = "setitem"
        /\ \/ last'.err = "ConversionError" /\ last'.kind = "bad"
           \/ last'.err = "InvalidIdentifier" /\ ~IsName(last'.name))
        => store' = store]_vars

\* C14: a set of a thing that is no value failed, and the property that held
\* a section and the section are gone
C14_PropertyLostOnFailure ==
    /\ last.op = "setitem" /\ last.kind = "bad" /\ last.err = "ConversionError"
    /\ last.size > Cardinality(store.sections)
    /\ ~__contains__(store, last.id, last.name)

\* The calls of the store a graft makes, one after the other: a section is
\* created (under parent and prop, or as the root), or a thing is converted
\* and set as the value name of the section uuid
CreateStep(sec, parent, prop) ==
    [k |-> "create", uuid |-> sec.uuid, type |-> sec.type, label |-> sec.label,
     reference |-> sec.reference, parent |-> parent, name |-> prop, thing |-> TBad]
SetStep(uuid, name, thing) ==
    [k |-> "set", uuid |-> uuid, type |-> None, label |-> None, reference |-> None,
     parent |-> NoId, name |-> name, thing |-> thing]

RECURSIVE CopySteps(_, _, _, _, _)
RECURSIVE CopyItemSteps(_, _, _, _)
RECURSIVE CopyListSteps(_, _, _, _, _)
\* the calls of a copy of the section uuid of src: the section, then what
\* its items hold, in their order
CopySteps(src, uuid, parent, prop, deep) ==
    <<CreateStep(Sec(src, uuid), parent, prop)>> \o CopyItemSteps(src, uuid, deep, 1)
CopyItemSteps(src, uuid, deep, i) ==
    IF i > Len(items(src, uuid)) THEN <<>>
    ELSE LET it == items(src, uuid)[i] IN
         (IF it.thing.k = "Value" THEN <<SetStep(uuid, it.name, it.thing)>>
          ELSE IF deep THEN CopyListSteps(src, uuid, it.name, it.thing.refs, 1)
          ELSE <<>>)
         \o CopyItemSteps(src, uuid, deep, i + 1)
CopyListSteps(src, uuid, name, refs, i) ==
    IF i > Len(refs) THEN <<>>
    ELSE CopySteps(src, refs[i], uuid, name, TRUE)
         \o CopyListSteps(src, uuid, name, refs, i + 1)

RECURSIVE BuildSteps(_, _, _, _)
RECURSIVE BuildPropSteps(_, _, _)
RECURSIVE BuildListSteps(_, _, _, _, _)
\* the calls of a build of the builder b on the store st: the section, then
\* its properties in their order, the sections of each before the next
BuildSteps(st, b, parent, prop) ==
    <<CreateStep(b, parent, prop)>> \o BuildPropSteps(st, b, 1)
BuildPropSteps(st, b, i) ==
    IF i > Len(b.properties) THEN <<>>
    ELSE LET p == b.properties[i] IN
         (IF p.thing.k = "list" THEN BuildListSteps(st, b.uuid, p.name, p.thing.elems, 1)
          ELSE IF p.thing.k = "SB" THEN BuildSteps(st, p.thing.b, b.uuid, p.name)
          ELSE IF p.thing.k = "Section"
          THEN CopySteps(BackEnd(p.thing, st), p.thing.uuid, b.uuid, p.name, TRUE)
          ELSE <<SetStep(b.uuid, p.name, p.thing)>>)
         \o BuildPropSteps(st, b, i + 1)
BuildListSteps(st, uuid, name, elems, i) ==
    IF i > Len(elems) THEN <<>>
    ELSE (IF elems[i].k = "SB" THEN BuildSteps(st, elems[i].b, uuid, name)
          ELSE IF elems[i].k = "Section"
          THEN CopySteps(BackEnd(elems[i], st), elems[i].uuid, uuid, name, TRUE)
          ELSE <<>>)
         \o BuildListSteps(st, uuid, name, elems, i + 1)

\* one call of the store
ApplyStep(st, step) ==
    IF step.k = "set" THEN SetConverted(st, step.uuid, step.name, from_obj(step.thing))
    ELSE IF step.parent = NoId
    THEN root_create(st, step.type, step.uuid, step.label, step.reference)
    ELSE IF step.name = None THEN Fail(st, "StructuralError")
    ELSE property_add_section(st, step.parent, step.name, step.type, step.uuid,
                              step.label, step.reference)

RECURSIVE RunSteps(_, _, _)
\* the calls made one after the other, up to the first that fails: the store
\* left, the error raised and the number of calls that were made
RunSteps(st, steps, i) ==
    IF i > Len(steps) THEN [st |-> st, err |-> "none", made |-> Len(steps)]
    ELSE IF ApplyStep(st, steps[i]).err # "none"
    THEN [st |-> st, err |-> ApplyStep(st, steps[i]).err, made |-> i - 1]
    ELSE RunSteps(ApplyStep(st, steps[i]).st, steps, i + 1)

\* the section a call writes to
WrittenTo(step) == IF step.k = "set" THEN step.uuid ELSE step.parent
\* every call but the first writes to a section an earlier call created
TopDown(steps) ==
    \A i \in 2..Len(steps) :
        \E j \in 1..(i - 1) : steps[j].k = "create" /\ steps[j].uuid = WrittenTo(steps[i])
\* the sections the first n calls created
CreatedBy(steps, n) == {steps[j].uuid : j \in {k \in 1..n : steps[k].k = "create"}}

\* the graft r of the calls steps on the store st is these calls made in
\* order up to the first that fails, and no more
PrefixOf(st, r, steps) ==
    /\ steps # <<>> /\ steps[1].k = "create"
    /\ TopDown(steps)
    /\ r.st = RunSteps(st, steps, 1).st
    /\ r.err = RunSteps(st, steps, 1).err
    /\ StoreIds(r.st) = StoreIds(st) \cup CreatedBy(steps, RunSteps(st, steps, 1).made)
    /\ r.err = "none" <=> RunSteps(st, steps, 1).made = Len(steps)

\* C15: a graft of a builder or of a Section is top-down and not
\* transactional: every section is created before its properties and its
\* children, and when the graft fails at some node (an id that exists, an
\* invalid name, a thing that is no value) the sections and properties
\* created before the failing step remain in the store and nothing after it
\* is created.
C15_GraftIsPrefixOfSteps ==
    Idle =>
    /\ \A b \in Builders, parent \in Ids \cup {NoId}, prop \in {"a", BadName, None} :
          PrefixOf(store, build(store, b, parent, prop), BuildSteps(store, b, parent, prop))
    /\ \A s \in SourceSections \cup OwnSections, parent \in Ids \cup {NoId},
          prop \in {"b", None}, deep \in BOOLEAN :
          section_exists(BackEnd(s, store), s.uuid) =>
              PrefixOf(store, _copy(store, BackEnd(s, store), s.uuid, parent, prop, deep),
                       CopySteps(BackEnd(s, store), s.uuid, parent, prop, deep))

\* C15: a build failed after it had created sections, and they are there
C15_PartialGraftRemains ==
    /\ last.op = "build" /\ last.err \in {"AlreadyExists", "ConversionError"}
    /\ Cardinality(store.sections) > last.size
    /\ section_exists(store, last.uuid)

=============================================================================
